---- MODULE Spec2Model ----
(***************************************************************************)
(* Verification model of the dotmatrix overlapping-circle engine:          *)
(*   - the spatial deduplicator   (convex_detector.deduplicate_circles_kdtree) *)
(*   - the tile orchestrator      (convex_detector.generate_tiles,         *)
(*                                 convex_detector.process_chunked)        *)
(*   - the radius calibrator      (calibration.calibrate_radius)           *)
(* Each component is a state machine of its own (SpecDedup, SpecTiles,     *)
(* SpecChunked, SpecCalib); the variables of the other components stay     *)
(* idle.                                                                   *)
(***************************************************************************)
EXTENDS Integers, Sequences, FiniteSets, TLC

VARIABLES
    \* ---- deduplicate_circles_kdtree ----
    circles,         \* the input list of (x, y, radius) triples
    dedup_distance,  \* the dedup_distance argument
    color,           \* the color argument
    di,              \* loop index of `for i, (x, y, r) in enumerate(circles)` (0-based)
    used,            \* the `used` set of indices
    final_circles,   \* the `final_circles` list of DetectedCircle
    dpc,             \* position: "loop", "returned"
    pass,            \* 1: run on the caller's input, 2: run on the first run's output
    first_result,    \* list returned by the first run
    xs,              \* the caller's original candidate list
    \* ---- calibrate_radius ----
    initial_min,     \* the initial_min argument
    initial_max,     \* the initial_max argument
    max_iterations,  \* the max_iterations argument
    verification,    \* VerificationResult of the baseline probe (count, radius_min, radius_max)
    vAtMax,          \* verifier count at (min_radius = m, max_radius = initial_max), per m
    vAtMin,          \* verifier count at (min_radius = optimal_min, max_radius = M), per M
    target_count,
    low,             \* low, high, best, iterations: locals of the running binary search
    high,
    best,
    iterations,
    optimal_min,     \* result of _binary_search_min_radius
    min_iters,
    history,         \* the history list of CalibrationStep
    on_iteration,    \* TRUE when the caller passed an on_iteration callback
    callbacks,       \* the invocations of the on_iteration callback, in order
    verify_calls,    \* number of calls of verify_black_dot_detection made so far
    cpc,             \* position: "start", "min_search", "max_search", "done"
    result,          \* the returned CalibrationResult
    \* ---- generate_tiles / process_chunked ----
    img_h,           \* image.shape[0]
    img_w,           \* image.shape[1]
    scene,           \* the dots printed in the image, as DetectedCircle records
    chunk_size,      \* the chunk_size argument (reassigned by process_chunked)
    max_radius,
    min_radius,
    overlap,
    tiles,           \* the list returned by generate_tiles
    ti,              \* index of the tile loop (0-based)
    all_circles,     \* circles of the tiles processed so far, in global coordinates
    tpc,             \* position: "start", "tiled", "done"
    path,            \* "single" (direct) or "multi" (tiled) once decided
    chunk_result,    \* the list returned by process_chunked
    \* ---- generate_tiles called on its own ----
    image_shape,     \* the image_shape argument <<h, w>>
    gen_chunk_size,  \* the chunk_size argument
    gen_overlap,     \* the overlap argument
    tile_step,       \* the local `step`
    tile_y,          \* y of `for y in range(0, h, step)`
    tile_x,          \* x of `for x in range(0, w, step)`
    gen_tiles,       \* the local list `tiles`
    gpc,             \* position: "start", "rows", "returned"
    \* ---- verify_black_dot_detection ----
    v_shape,         \* image.shape[:2] = <<h, w>>
    v_min_radius,    \* the min_radius argument
    v_max_radius,    \* the max_radius argument
    expected_count_range,  \* the expected_count_range argument, <<>> for None
    radii,           \* radii of the circles the detector finds in the black mask
    vresult,         \* the returned VerificationResult
    vpc,             \* position: "start", "returned"
    \* ---- detect_circles_from_convex_edges: convex boundary filter of one blob ----
    contour_len,     \* len(contour)
    defects,         \* rows (s, e, f, d) of cv2.convexityDefects, d = depth * 256
    non_convex_margin,  \* the non_convex_margin argument
    convex_mask,     \* convex_mask, indexed 0 .. len(contour) - 1
    defect_i,        \* i of `for i in range(defects.shape[0])`
    fpc,             \* position: "start", "defects", "filtered"
    \* best circle per blob (detect_circles_from_convex_edges)
    convex_points,   \* convex_points of the current blob, (px, py) in pixels
    hough_circles,   \* circles[0] of cv2.HoughCircles, (cx, cy, r) in half pixels; <<>> is None
    circle_i,        \* number of candidates the selection loop has scored
    best_circle,     \* best_circle; <<>> is None
    best_score,      \* best_score, a fraction <<numerator, denominator>>
    candidate_circles, \* candidate_circles
    blobs_done,      \* number of blobs the outer loop has finished
    spc              \* position: "blob", "select"

varsD == <<circles, dedup_distance, color, di, used, final_circles, dpc, pass, first_result, xs>>

varsC == <<max_iterations, initial_min, initial_max, verification, vAtMax, vAtMin, target_count, low, high,
           best, iterations, optimal_min, min_iters, history, on_iteration, callbacks,
           verify_calls, cpc, result>>

varsT == <<img_h, img_w, scene, chunk_size, max_radius, min_radius, overlap, tiles, ti,
           all_circles, tpc, path, chunk_result>>

varsG == <<image_shape, gen_chunk_size, gen_overlap, tile_step, tile_y, tile_x, gen_tiles, gpc>>

varsV == <<v_shape, v_min_radius, v_max_radius, expected_count_range, radii, vresult, vpc>>

varsF == <<contour_len, defects, non_convex_margin, convex_mask, defect_i, fpc>>

varsS == <<convex_points, hough_circles, circle_i, best_circle, best_score, candidate_circles,
           blobs_done, spc>>

vars == <<varsD, varsC, varsT, varsG, varsV, varsF, varsS>>

\* the variables of the components an action does not belong to
notD == <<varsC, varsT, varsG, varsV, varsF, varsS>>
notC == <<varsD, varsT, varsG, varsV, varsF, varsS>>
notT == <<varsD, varsC, varsG, varsV, varsF, varsS>>
notG == <<varsD, varsC, varsT, varsV, varsF, varsS>>
notV == <<varsD, varsC, varsT, varsG, varsF, varsS>>
notF == <<varsD, varsC, varsT, varsG, varsV, varsS>>
notS == <<varsD, varsC, varsT, varsG, varsV, varsF>>

(***************************************************************************)
(* Bounds of the deduplicator inputs.                                      *)
(***************************************************************************)
MaxLen == 3      \* longest candidate list
MaxCoord == 1    \* candidate centers lie on the grid 0..MaxCoord x 0..MaxCoord
MaxDist == 2     \* largest dedup_distance

\* candidate radii (the deduplicator only copies them)
CandidateRadii == {1, 2}

Black == <<0, 0, 0>>

Triples == (0..MaxCoord) \X (0..MaxCoord) \X CandidateRadii

SeqsUpTo(S, n) == UNION {[1..k -> S] : k \in 0..n}

\* DetectedCircle(x, y, radius, color)
DetectedCircle(x, y, r, c) == [x |-> x, y |-> y, radius |-> r, color |-> c]

\* squared Euclidean distance between two centers
DistSq(x1, y1, x2, y2) == (x1 - x2) * (x1 - x2) + (y1 - y2) * (y1 - y2)

\* faulty variants of the ball query, used to show that the properties below
\* depend on it: a query that ignores the radius, one that reports 1-based
\* indices, and one that excludes the boundary
QueryBallPointZero(cs, x, y, r) ==
    {j \in 0..(Len(cs) - 1) : DistSq(cs[j + 1][1], cs[j + 1][2], x, y) = 0}

QueryBallPointOneBased(cs, x, y, r) ==
    {j + 1 : j \in {k \in 0..(Len(cs) - 1) :
        r >= 0 /\ DistSq(cs[k + 1][1], cs[k + 1][2], x, y) <= r * r}}

QueryBallPointStrict(cs, x, y, r) ==
    {j \in 0..(Len(cs) - 1) :
        r >= 0 /\ DistSq(cs[j + 1][1], cs[j + 1][2], x, y) < r * r}

\* tree.query_ball_point([x, y], r): the 0-based indices of all points of the
\* tree whose distance to (x, y) is at most r (inclusive); none when r < 0.
QueryBallPoint(cs, x, y, r) ==
    {j \in 0..(Len(cs) - 1) :
        r >= 0 /\ DistSq(cs[j + 1][1], cs[j + 1][2], x, y) <= r * r}

InitD ==
    /\ circles \in SeqsUpTo(Triples, MaxLen)
    /\ dedup_distance \in 0..MaxDist
    /\ color = Black
    /\ di = 0
    /\ used = {}
    /\ final_circles = <<>>
    /\ dpc = "loop"
    /\ pass = 1
    /\ first_result = <<>>
    /\ xs = circles

\* the deduplicator is not running
IdleD ==
    /\ circles = <<>>
    /\ dedup_distance = 0
    /\ color = Black
    /\ di = 0
    /\ used = {}
    /\ final_circles = <<>>
    /\ dpc = "idle"
    /\ pass = 0
    /\ first_result = <<>>
    /\ xs = <<>>

\* one iteration of the loop at index di whose candidate is already used
DedupSkip ==
    /\ dpc = "loop"
    /\ di < Len(circles)
    /\ di \in used
    /\ di' = di + 1
    /\ UNCHANGED <<circles, dedup_distance, color, used, final_circles, dpc, pass, first_result, xs>>
    /\ UNCHANGED notD

\* one iteration of the loop that keeps candidate di and marks its neighbours
DedupKeep ==
    /\ dpc = "loop"
    /\ di < Len(circles)
    /\ di \notin used
    /\ LET c == circles[di + 1] IN
        /\ final_circles' = Append(final_circles, DetectedCircle(c[1], c[2], c[3], color))
        /\ used' = used \cup QueryBallPoint(circles, c[1], c[2], dedup_distance)
    /\ di' = di + 1
    /\ UNCHANGED <<circles, dedup_distance, color, dpc, pass, first_result, xs>>
    /\ UNCHANGED notD

\* the loop is exhausted (or the list was empty): return final_circles
DedupReturn ==
    /\ dpc = "loop"
    /\ di = Len(circles)
    /\ dpc' = "returned"
    /\ first_result' = IF pass = 1 THEN final_circles ELSE first_result
    /\ UNCHANGED <<circles, dedup_distance, color, di, used, final_circles, pass, xs>>
    /\ UNCHANGED notD

\* the caller feeds the (x, y, radius) triples of the result back in
\* (DetectedCircle.__iter__ yields x, y, radius)
DedupAgain ==
    /\ dpc = "returned"
    /\ pass = 1
    /\ circles' = [k \in 1..Len(final_circles) |->
                      <<final_circles[k].x, final_circles[k].y, final_circles[k].radius>>]
    /\ di' = 0
    /\ used' = {}
    /\ final_circles' = <<>>
    /\ dpc' = "loop"
    /\ pass' = 2
    /\ UNCHANGED <<dedup_distance, color, first_result, xs>>
    /\ UNCHANGED notD

NextD == DedupSkip \/ DedupKeep \/ DedupReturn \/ DedupAgain

(***************************************************************************)
(* Radius calibrator (calibration.py).                                     *)
(*                                                                         *)
(* verify_black_dot_detection is a deterministic function of the image and *)
(* of (min_radius, max_radius).  calibrate_radius only ever calls it at    *)
(* (initial_min, initial_max), at (m, initial_max) during the min search   *)
(* and at (optimal_min, M) during the max search and the final             *)
(* verification, so the image is represented by the verifier's answers on  *)
(* these two rows.  The answers are arbitrary counts; the radii of the     *)
(* baseline probe lie in the window it was called with                     *)
(* (HoughCircles minRadius/maxRadius) and radius_min <= radius_max.        *)
(***************************************************************************)
MaxRad == 5      \* radius bounds range over 1..MaxRad
MaxCount == 2    \* verifier counts range over 0..MaxCount

Rad == 1..MaxRad
Count == 0..MaxCount

\* a faulty acceptance test: "still detects something"
StillDetectsAny(count, target) == count > 0

\* `if count >= target_count`
StillDetectsAll(count, target) == count >= target

\* abs(count - target_count)
AbsError(count, target) == IF count >= target THEN count - target ELSE target - count

\* mid = (low + high) // 2
MidLow(lo, hi) == lo

Mid(lo, hi) == (lo + hi) \div 2

\* the accepting branch of each search copied from the other search
MinNarrowAsMax(ok, lo, hi, mid, b) ==
    IF ok THEN [best |-> mid, low |-> lo, high |-> mid - 1]
          ELSE [best |-> b, low |-> mid + 1, high |-> hi]

MaxNarrowAsMin(ok, lo, hi, mid, b) ==
    IF ok THEN [best |-> mid, low |-> mid + 1, high |-> hi]
          ELSE [best |-> b, low |-> lo, high |-> mid - 1]

MinNarrowNoAdvance(ok, lo, hi, mid, b) ==
    IF ok THEN [best |-> mid, low |-> mid, high |-> hi]
          ELSE [best |-> b, low |-> lo, high |-> mid - 1]

\* _binary_search_min_radius: the if/else that narrows the interval
MinNarrow(ok, lo, hi, mid, b) ==
    IF ok THEN [best |-> mid, low |-> mid + 1, high |-> hi]
          ELSE [best |-> b, low |-> lo, high |-> mid - 1]

\* _binary_search_max_radius: the if/else that narrows the interval
MaxNarrow(ok, lo, hi, mid, b) ==
    IF ok THEN [best |-> mid, low |-> lo, high |-> mid - 1]
          ELSE [best |-> b, low |-> mid + 1, high |-> hi]

CalibrationStepSwapped(it, param, minr, maxr, count, target, err) ==
    [iteration |-> it, parameter |-> param, min_radius |-> maxr, max_radius |-> minr,
     detected_count |-> count, target_count |-> target, error |-> err]

CalibrationStep(it, param, minr, maxr, count, target, err) ==
    [iteration |-> it, parameter |-> param, min_radius |-> minr, max_radius |-> maxr,
     detected_count |-> count, target_count |-> target, error |-> err]

CalibrationResultSwapped(omin, omax, target, fcount, ferror, its, conv, hist, dmin, dmax) ==
    [optimal_min_radius |-> omax, optimal_max_radius |-> omin, target_count |-> target,
     final_count |-> fcount, final_error |-> ferror, iterations |-> its,
     converged |-> conv, history |-> hist,
     detected_radius_min |-> dmin, detected_radius_max |-> dmax]

CalibrationResult(omin, omax, target, fcount, ferror, its, conv, hist, dmin, dmax) ==
    [optimal_min_radius |-> omin, optimal_max_radius |-> omax, target_count |-> target,
     final_count |-> fcount, final_error |-> ferror, iterations |-> its,
     converged |-> conv, history |-> hist,
     detected_radius_min |-> dmin, detected_radius_max |-> dmax]

NoResult == [none |-> TRUE]

TotalIterationsNoBaseline(mi, ma) == mi + ma

\* total_iterations = 1 + min_iters + max_iters
TotalIterations(mi, ma) == 1 + mi + ma

OnIterationBeforeAppend(given, log, step, hist) ==
    IF given THEN Append(log, [step |-> step, history_len |-> Len(hist) - 1]) ELSE log

\* `history.append(step)` then `if on_iteration: on_iteration(step)`: the
\* callback, when one was passed, receives the step just appended; the log
\* keeps the step and the length of the history the callback can see
OnIteration(given, log, step, hist) ==
    IF given THEN Append(log, [step |-> step, history_len |-> Len(hist)]) ELSE log

NoCirclesResultConverged(imin, imax) ==
    CalibrationResult(imin, imax, 0, 0, 0, 0, TRUE, <<>>, 0, 0)

\* the CalibrationResult returned when the baseline probe finds no circle
NoCirclesResult(imin, imax) ==
    CalibrationResult(imin, imax, 0, 0, 0, 0, FALSE, <<>>, 0, 0)

\* verify_black_dot_detection(image, min_radius, max_radius).black_circles_detected
VerifyCount(minr, maxr) ==
    IF maxr = initial_max THEN vAtMax[minr] ELSE vAtMin[maxr]

\* calculate_verification_metrics: radius_min = radius_max = 0 when nothing
\* is detected, else the min and max of the detected radii
Verifications(imin, imax) ==
    {[black_circles_detected |-> 0, radius_min |-> 0, radius_max |-> 0]}
    \cup
    {[black_circles_detected |-> c, radius_min |-> a, radius_max |-> b] :
        c \in Count \ {0}, a \in imin..imax, b \in imin..imax}

\* the value passed as max_iterations (that of test_iteration_callback)
MaxIterationsArgs == {3}

InitC ==
    /\ max_iterations \in MaxIterationsArgs
    /\ initial_min \in Rad
    /\ initial_max \in Rad
    /\ initial_min < initial_max
    /\ verification \in Verifications(initial_min, initial_max)
    /\ verification.radius_min <= verification.radius_max
    /\ vAtMax \in [(initial_min..verification.radius_min) \cup {initial_min} -> Count]
    /\ vAtMax[initial_min] = verification.black_circles_detected
    /\ vAtMin = <<>>
    /\ target_count = 0
    /\ low = 0
    /\ high = 0
    /\ best = 0
    /\ iterations = 0
    /\ optimal_min = 0
    /\ min_iters = 0
    /\ history = <<>>
    /\ on_iteration \in BOOLEAN
    /\ callbacks = <<>>
    /\ verify_calls = 0
    /\ cpc = "start"
    /\ result = NoResult

\* the calibrator is not running
IdleC ==
    /\ max_iterations = 0
    /\ initial_min = 0
    /\ initial_max = 0
    /\ verification = NoResult
    /\ vAtMax = <<>>
    /\ vAtMin = <<>>
    /\ target_count = 0
    /\ low = 0
    /\ high = 0
    /\ best = 0
    /\ iterations = 0
    /\ optimal_min = 0
    /\ min_iters = 0
    /\ history = <<>>
    /\ on_iteration = FALSE
    /\ callbacks = <<>>
    /\ verify_calls = 0
    /\ cpc = "idle"
    /\ result = NoResult

\* Step 1 with target_count == 0: return without calibrating
BaselineNone ==
    /\ cpc = "start"
    /\ verification.black_circles_detected = 0
    /\ target_count' = 0
    /\ verify_calls' = 1
    /\ result' = NoCirclesResult(initial_min, initial_max)
    /\ cpc' = "done"
    /\ UNCHANGED <<max_iterations, initial_min, initial_max, verification, vAtMax, vAtMin, low, high, best,
                   iterations, optimal_min, min_iters, history, on_iteration, callbacks>>
    /\ UNCHANGED notC

\* Step 1 with target_count > 0: record the baseline step and enter
\* _binary_search_min_radius(low=initial_min, high=detected_min_r, fixed_max=initial_max)
Baseline ==
    /\ cpc = "start"
    /\ verification.black_circles_detected # 0
    /\ target_count' = verification.black_circles_detected
    /\ verify_calls' = 1
    /\ LET baseline_step == CalibrationStep(0, "baseline", initial_min, initial_max,
                                            target_count', target_count', 0)
       IN /\ history' = Append(history, baseline_step)
          /\ callbacks' = OnIteration(on_iteration, callbacks, baseline_step, history')
    /\ low' = initial_min
    /\ high' = verification.radius_min
    /\ best' = initial_min
    /\ iterations' = 0
    /\ cpc' = "min_search"
    /\ UNCHANGED <<max_iterations, initial_min, initial_max, verification, vAtMax, vAtMin, optimal_min,
                   min_iters, on_iteration, result>>
    /\ UNCHANGED notC

\* one iteration of the while loop of _binary_search_min_radius (iteration_offset = 1)
MinProbe ==
    /\ cpc = "min_search"
    /\ low <= high
    /\ LET mid == Mid(low, high)
           count == VerifyCount(mid, initial_max)
           step == CalibrationStep(1 + iterations + 1, "min_radius", mid, initial_max,
                                   count, target_count, AbsError(count, target_count))
           n == MinNarrow(StillDetectsAll(count, target_count), low, high, mid, best)
       IN /\ iterations' = iterations + 1
          /\ verify_calls' = verify_calls + 1
          /\ history' = Append(history, step)
          /\ callbacks' = OnIteration(on_iteration, callbacks, step, history')
          /\ best' = n.best
          /\ low' = n.low
          /\ high' = n.high
    /\ UNCHANGED <<max_iterations, initial_min, initial_max, verification, vAtMax, vAtMin, target_count,
                   optimal_min, min_iters, on_iteration, cpc, result>>
    /\ UNCHANGED notC

\* _binary_search_min_radius returns (best_min, iterations); calibrate_radius
\* enters _binary_search_max_radius(low=detected_max_r, high=initial_max,
\* fixed_min=optimal_min).  The image's answers on the row min_radius =
\* optimal_min become relevant here; at max_radius = initial_max they agree
\* with the row already known.
MinReturn ==
    /\ cpc = "min_search"
    /\ low > high
    /\ optimal_min' = best
    /\ min_iters' = iterations
    /\ vAtMin' \in [(verification.radius_max..initial_max) -> Count]
    /\ vAtMin'[initial_max] = vAtMax[best]
    /\ low' = verification.radius_max
    /\ high' = initial_max
    /\ best' = initial_max
    /\ iterations' = 0
    /\ cpc' = "max_search"
    /\ UNCHANGED <<max_iterations, initial_min, initial_max, verification, vAtMax, target_count, history,
                   on_iteration, callbacks, verify_calls, result>>
    /\ UNCHANGED notC

\* one iteration of the while loop of _binary_search_max_radius
\* (iteration_offset = 1 + min_iters)
MaxProbe ==
    /\ cpc = "max_search"
    /\ low <= high
    /\ LET mid == Mid(low, high)
           count == VerifyCount(optimal_min, mid)
           step == CalibrationStep(1 + min_iters + iterations + 1, "max_radius", optimal_min, mid,
                                   count, target_count, AbsError(count, target_count))
           n == MaxNarrow(StillDetectsAll(count, target_count), low, high, mid, best)
       IN /\ iterations' = iterations + 1
          /\ verify_calls' = verify_calls + 1
          /\ history' = Append(history, step)
          /\ callbacks' = OnIteration(on_iteration, callbacks, step, history')
          /\ best' = n.best
          /\ low' = n.low
          /\ high' = n.high
    /\ UNCHANGED <<max_iterations, initial_min, initial_max, verification, vAtMax, vAtMin, target_count,
                   optimal_min, min_iters, on_iteration, cpc, result>>
    /\ UNCHANGED notC

\* _binary_search_max_radius returns (best_max, iterations); Step 4: final
\* verification at (optimal_min, optimal_max) and the returned result
MaxReturn ==
    /\ cpc = "max_search"
    /\ low > high
    /\ LET optimal_max == best
           max_iters == iterations
           final_count == VerifyCount(optimal_min, optimal_max)
           final_error == AbsError(final_count, target_count)
       IN result' = CalibrationResult(optimal_min, optimal_max, target_count, final_count,
                                      final_error, TotalIterations(min_iters, max_iters),
                                      final_error = 0, history,
                                      verification.radius_min, verification.radius_max)
    /\ verify_calls' = verify_calls + 1
    /\ cpc' = "done"
    /\ UNCHANGED <<max_iterations, initial_min, initial_max, verification, vAtMax, vAtMin, target_count, low,
                   high, best, iterations, optimal_min, min_iters, history, on_iteration,
                   callbacks>>
    /\ UNCHANGED notC

NextC == BaselineNone \/ Baseline \/ MinProbe \/ MinReturn \/ MaxProbe \/ MaxReturn

(***************************************************************************)
(* Tile orchestrator (convex_detector.generate_tiles, process_chunked).    *)
(*                                                                         *)
(* The image is represented by the dots printed in it (scene).  The        *)
(* OpenCV pipeline of detect_circles_from_convex_edges is taken at its     *)
(* contract: every blob yields at most one candidate, and a dot that lies  *)
(* completely inside the processed region, with a radius in                *)
(* [min_radius, max_radius], yields the candidate (x, y, radius) relative  *)
(* to the region's origin; the repository's own code (candidate list,      *)
(* deduplication, tiling, offsetting, grouping, merging) is modelled as    *)
(* written.                                                                *)
(***************************************************************************)
White == <<255, 255, 255>>
Cyan == <<118, 193, 241>>

\* PALETTES['cmyk'] restricted to background, black and cyan
Palette == <<White, Black, Cyan>>

\* detect_circles_from_convex_edges(dedup_distance=20)
DefaultDedupDistance == 20

Max2(a, b) == IF a >= b THEN a ELSE b

Min2(a, b) == IF a <= b THEN a ELSE b

\* list(range(0, n, step)) for n >= 1, step >= 1
RangeSeq(n, step) == [k \in 1..(((n - 1) \div step) + 1) |-> (k - 1) * step]

TileStepPlusOverlap(chunk, ovl) == Max2(1, chunk + ovl)

\* step = max(1, chunk_size - overlap)
TileStep(chunk, ovl) == Max2(1, chunk - ovl)

TileEndUnclipped(a, chunk, n) == a + chunk

\* x2 = min(x + chunk_size, w), y2 = min(y + chunk_size, h)
TileEnd(a, chunk, n) == Min2(a + chunk, n)

\* generate_tiles((h, w), chunk_size, overlap): tiles (x1, y1, x2, y2), rows first
GenerateTiles(h, w, chunk, ovl) ==
    LET step == TileStep(chunk, ovl)
        ys == RangeSeq(h, step)
        xr == RangeSeq(w, step)
    IN [k \in 1..(Len(ys) * Len(xr)) |->
          LET y == ys[((k - 1) \div Len(xr)) + 1]
              x == xr[((k - 1) % Len(xr)) + 1]
          IN <<x, y, TileEnd(x, chunk, w), TileEnd(y, chunk, h)>>]

\* the pixels x - r .. x + r, y - r .. y + r of a dot all lie in the region
\* [x1, x2) x [y1, y2)
FullyInside(c, t) ==
    /\ t[1] <= c.x - c.radius
    /\ c.x + c.radius < t[3]
    /\ t[2] <= c.y - c.radius
    /\ c.y + c.radius < t[4]

\* some pixel of the dot's bounding box lies in the region
Touches(c, t) ==
    /\ c.x - c.radius < t[3]
    /\ t[1] <= c.x + c.radius
    /\ c.y - c.radius < t[4]
    /\ t[2] <= c.y + c.radius

\* deduplicate_circles_kdtree as a function: the loop from index i on
RECURSIVE DedupFrom(_, _, _, _, _, _)
DedupFrom(cs, col, d, i, usedSet, acc) ==
    IF i >= Len(cs) THEN acc
    ELSE IF i \in usedSet THEN DedupFrom(cs, col, d, i + 1, usedSet, acc)
    ELSE LET c == cs[i + 1] IN
         DedupFrom(cs, col, d, i + 1,
                   usedSet \cup QueryBallPoint(cs, c[1], c[2], d),
                   Append(acc, DetectedCircle(c[1], c[2], c[3], col)))

DeduplicateCirclesKdtree(cs, col, d) == DedupFrom(cs, col, d, 0, {}, <<>>)

\* candidate_circles of detect_circles_from_convex_edges for one color mask
\* of the region t: one (x, y, r) per blob, relative to the region's origin
CandidateCircles(sc, col, t, minr, maxr) ==
    LET found == SelectSeq(sc, LAMBDA c :
                     /\ c.color = col
                     /\ FullyInside(c, t)
                     /\ minr <= c.radius
                     /\ c.radius <= maxr)
    IN [k \in 1..Len(found) |-> <<found[k].x - t[1], found[k].y - t[2], found[k].radius>>]

DetectCirclesFromConvexEdges(sc, col, t, minr, maxr, d) ==
    DeduplicateCirclesKdtree(CandidateCircles(sc, col, t, minr, maxr), col, d)

\* detect_all_circles(image[y1:y2, x1:x2], palette, min_radius, max_radius)
\* with exclude_background=True: the colors palette[1:], in palette order
RECURSIVE DetectColorsFrom(_, _, _, _, _)
DetectColorsFrom(sc, t, minr, maxr, k) ==
    IF k > Len(Palette) THEN <<>>
    ELSE DetectCirclesFromConvexEdges(sc, Palette[k], t, minr, maxr, DefaultDedupDistance)
         \o DetectColorsFrom(sc, t, minr, maxr, k + 1)

DetectAllCircles(sc, t, minr, maxr) == DetectColorsFrom(sc, t, minr, maxr, 2)

\* dedup_distance = max_radius // 2
BoundaryDedupDistance(maxr) == maxr \div 2

\* circles_by_color: the colors in order of first occurrence, and per color
\* the (x, y, radius) triples in order
ColorsInOrder(cs) ==
    LET firsts == SelectSeq([k \in 1..Len(cs) |-> k],
                            LAMBDA k : \A j \in 1..(k - 1) : cs[j].color # cs[k].color)
    IN [k \in 1..Len(firsts) |-> cs[firsts[k]].color]

TriplesOfColor(cs, col) ==
    LET mine == SelectSeq(cs, LAMBDA c : c.color = col)
    IN [k \in 1..Len(mine) |-> <<mine[k].x, mine[k].y, mine[k].radius>>]

RECURSIVE MergeFrom(_, _, _, _)
MergeFrom(cs, cols, d, k) ==
    IF k > Len(cols) THEN <<>>
    ELSE DeduplicateCirclesKdtree(TriplesOfColor(cs, cols[k]), cols[k], d)
         \o MergeFrom(cs, cols, d, k + 1)

WholeImage == <<0, 0, img_w, img_h>>

\* an overlap of one radius only (faulty variant)
OverlapOneRadius(maxr) == maxr

\* overlap = max_radius * 2
Overlap(maxr) == maxr * 2

\* min_chunk_size = overlap * 3
MinChunkSize(ovl) == ovl * 3

(* Inputs of the tiling runs without dots: every small image shape, radius *)
(* and requested chunk size.                                               *)
MaxDim == 16          \* image sides 1..MaxDim
MaxTileRadius == 2    \* max_radius 0..MaxTileRadius
MaxChunk == 8         \* requested chunk_size 1..MaxChunk

InitTiles ==
    /\ img_h \in 1..MaxDim
    /\ img_w \in 1..MaxDim
    /\ scene = <<>>
    /\ chunk_size \in 1..MaxChunk
    /\ max_radius \in 0..MaxTileRadius
    /\ min_radius = 1
    /\ overlap = 0
    /\ tiles = <<>>
    /\ ti = 0
    /\ all_circles = <<>>
    /\ tpc = "start"
    /\ path = "none"
    /\ chunk_result = <<>>

(* Inputs of the detection runs: a strip of SceneHeight rows with up to    *)
(* MaxDots dots of radius DotRadius on its middle row.  Dots of one color  *)
(* are separate blobs (they neither overlap nor touch).                    *)
MaxDots == 2
DotRadius == 18
SceneHeight == 40
SceneWidths == {100, 500, 700}
SceneMaxRadii == {30, 80}
DotXs == {20, 58, 330, 368, 406}

Dots == {DetectedCircle(x, SceneHeight \div 2, DotRadius, c) : x \in DotXs, c \in {Black, Cyan}}

SeparateBlobs(sc) ==
    \A a \in 1..Len(sc) : \A b \in 1..Len(sc) :
        (a # b /\ sc[a].color = sc[b].color) =>
            DistSq(sc[a].x, sc[a].y, sc[b].x, sc[b].y)
                > (sc[a].radius + sc[b].radius + 1) * (sc[a].radius + sc[b].radius + 1)

InitChunked ==
    /\ img_h = SceneHeight
    /\ img_w \in SceneWidths
    /\ scene \in SeqsUpTo(Dots, MaxDots)
    /\ SeparateBlobs(scene)
    /\ \A k \in 1..Len(scene) : FullyInside(scene[k], WholeImage)
    /\ chunk_size \in {100, 500}
    /\ max_radius \in SceneMaxRadii
    /\ min_radius = 10
    /\ overlap = 0
    /\ tiles = <<>>
    /\ ti = 0
    /\ all_circles = <<>>
    /\ tpc = "start"
    /\ path = "none"
    /\ chunk_result = <<>>

\* the tile orchestrator is not running
IdleT ==
    /\ img_h = 0
    /\ img_w = 0
    /\ scene = <<>>
    /\ chunk_size = 0
    /\ max_radius = 0
    /\ min_radius = 0
    /\ overlap = 0
    /\ tiles = <<>>
    /\ ti = 0
    /\ all_circles = <<>>
    /\ tpc = "idle"
    /\ path = "none"
    /\ chunk_result = <<>>

\* process_chunked up to generate_tiles: overlap, minimum chunk size, tiles
ChunkedSetup ==
    /\ tpc = "start"
    /\ overlap' = Overlap(max_radius)
    /\ chunk_size' = IF chunk_size < MinChunkSize(overlap') THEN MinChunkSize(overlap')
                                                            ELSE chunk_size
    /\ tiles' = GenerateTiles(img_h, img_w, chunk_size', overlap')
    /\ tpc' = "tiled"
    /\ UNCHANGED <<img_h, img_w, scene, max_radius, min_radius, ti, all_circles, path, chunk_result>>
    /\ UNCHANGED notT

\* the circles of tile t offset to global image space
GlobalCircles(tile_circles, t) ==
    [k \in 1..Len(tile_circles) |->
        DetectedCircle(tile_circles[k].x + t[1], tile_circles[k].y + t[2],
                       tile_circles[k].radius, tile_circles[k].color)]

\* total_tiles == 1: run detect_all_circles on the whole image and return
ProcessDirect ==
    /\ tpc = "tiled"
    /\ Len(tiles) = 1
    /\ chunk_result' = DetectAllCircles(scene, WholeImage, min_radius, max_radius)
    /\ path' = "single"
    /\ tpc' = "done"
    /\ UNCHANGED <<img_h, img_w, scene, chunk_size, max_radius, min_radius, overlap, tiles, ti,
                   all_circles>>
    /\ UNCHANGED notT

\* one iteration of the tile loop: detect in the tile, offset to global coordinates
ProcessTile ==
    /\ tpc = "tiled"
    /\ Len(tiles) # 1
    /\ ti < Len(tiles)
    /\ LET t == tiles[ti + 1]
           tile_circles == DetectAllCircles(scene, t, min_radius, max_radius)
       IN all_circles' = all_circles \o GlobalCircles(tile_circles, t)
    /\ ti' = ti + 1
    /\ path' = "multi"
    /\ UNCHANGED <<img_h, img_w, scene, chunk_size, max_radius, min_radius, overlap, tiles, tpc,
                   chunk_result>>
    /\ UNCHANGED notT

\* after the tile loop: group by color, deduplicate each group, return
MergeTiles ==
    /\ tpc = "tiled"
    /\ Len(tiles) # 1
    /\ ti = Len(tiles)
    /\ chunk_result' = MergeFrom(all_circles, ColorsInOrder(all_circles),
                                 BoundaryDedupDistance(max_radius), 1)
    /\ path' = "multi"
    /\ tpc' = "done"
    /\ UNCHANGED <<img_h, img_w, scene, chunk_size, max_radius, min_radius, overlap, tiles, ti,
                   all_circles>>
    /\ UNCHANGED notT

NextTiles == ChunkedSetup

NextChunked == ChunkedSetup \/ ProcessDirect \/ ProcessTile \/ MergeTiles

\* one specification per component; the other components stay idle
(* generate_tiles called directly, with arguments of the caller's choice   *)
(* (the overlap may reach or exceed the chunk size).                       *)
MaxSide == 5
MaxChunkArg == 5
MaxOverlapArg == 6

InitG ==
    /\ image_shape \in (1..MaxSide) \X (1..MaxSide)
    /\ gen_chunk_size \in 1..MaxChunkArg
    /\ gen_overlap \in 0..MaxOverlapArg
    /\ tile_step = 0
    /\ tile_y = 0
    /\ tile_x = 0
    /\ gen_tiles = <<>>
    /\ gpc = "start"

\* generate_tiles is not running
IdleG ==
    /\ image_shape = <<0, 0>>
    /\ gen_chunk_size = 0
    /\ gen_overlap = 0
    /\ tile_step = 0
    /\ tile_y = 0
    /\ tile_x = 0
    /\ gen_tiles = <<>>
    /\ gpc = "idle"

\* h, w = image_shape[:2]; tiles = []; step = max(1, chunk_size - overlap);
\* both range loops start at 0
GenStart ==
    /\ gpc = "start"
    /\ tile_step' = TileStep(gen_chunk_size, gen_overlap)
    /\ tile_y' = 0
    /\ tile_x' = 0
    /\ gen_tiles' = <<>>
    /\ gpc' = "rows"
    /\ UNCHANGED <<image_shape, gen_chunk_size, gen_overlap>>
    /\ UNCHANGED notG

\* body of the inner loop: append the tile at (x, y), clipped to the image
GenTile ==
    /\ gpc = "rows"
    /\ tile_y < image_shape[1]
    /\ tile_x < image_shape[2]
    /\ gen_tiles' = Append(gen_tiles,
                           <<tile_x, tile_y,
                             TileEnd(tile_x, gen_chunk_size, image_shape[2]),
                             TileEnd(tile_y, gen_chunk_size, image_shape[1])>>)
    /\ tile_x' = tile_x + tile_step
    /\ UNCHANGED <<image_shape, gen_chunk_size, gen_overlap, tile_step, tile_y, gpc>>
    /\ UNCHANGED notG

\* range(0, w, step) is exhausted: next y of range(0, h, step)
GenNextRow ==
    /\ gpc = "rows"
    /\ tile_y < image_shape[1]
    /\ tile_x >= image_shape[2]
    /\ tile_y' = tile_y + tile_step
    /\ tile_x' = 0
    /\ UNCHANGED <<image_shape, gen_chunk_size, gen_overlap, tile_step, gen_tiles, gpc>>
    /\ UNCHANGED notG

\* range(0, h, step) is exhausted: return tiles
GenReturn ==
    /\ gpc = "rows"
    /\ tile_y >= image_shape[1]
    /\ gpc' = "returned"
    /\ UNCHANGED <<image_shape, gen_chunk_size, gen_overlap, tile_step, tile_y, tile_x,
                   gen_tiles>>
    /\ UNCHANGED notG

NextG == GenStart \/ GenTile \/ GenNextRow \/ GenReturn

(* verify_black_dot_detection.  The detector's answer is an input: the     *)
(* radii of the circles it finds, each within [min_radius, max_radius].    *)
(* Fractions are kept exact as <<numerator, denominator>>:                 *)
(*   radius_mean      = sum / count                                        *)
(*   radius_std ^ 2   = (count * sumsq - sum^2) / count^2                  *)
(*   coverage_percent = 100 * pi * sumsq / pixels   (kept as sumsq/pixels) *)
(*   density          = 1000000 * count / pixels    (kept as count/pixels) *)
MaxDetected == 3

RECURSIVE SumSeq(_)
SumSeq(q) == IF Len(q) = 0 THEN 0 ELSE Head(q) + SumSeq(Tail(q))

SeqMin(q) == CHOOSE a \in {q[k] : k \in 1..Len(q)} : \A k \in 1..Len(q) : a <= q[k]

SeqMax(q) == CHOOSE a \in {q[k] : k \in 1..Len(q)} : \A k \in 1..Len(q) : a >= q[k]

ZeroFraction == <<0, 1>>

\* calculate_verification_metrics(black_circle_count, image_shape, radii)
CalculateVerificationMetrics(black_circle_count, shape, rs) ==
    IF Len(rs) = 0 \/ black_circle_count = 0
    THEN [density |-> ZeroFraction, coverage_percent |-> ZeroFraction,
          radius_mean |-> ZeroFraction, radius_std |-> ZeroFraction,
          radius_min |-> 0, radius_max |-> 0, count |-> 0]
    ELSE LET n == Len(rs)
             sum == SumSeq(rs)
             sumsq == SumSeq([k \in 1..n |-> rs[k] * rs[k]])
             pixels == shape[1] * shape[2]
         IN [density |-> <<black_circle_count, pixels>>,
             coverage_percent |-> <<sumsq, pixels>>,
             radius_mean |-> <<sum, n>>,
             radius_std |-> <<n * sumsq - sum * sum, n * n>>,
             radius_min |-> SeqMin(rs), radius_max |-> SeqMax(rs),
             count |-> black_circle_count]

\* expected_count_range when the caller passes None:
\* (int(h * w / (200 * 200)), int(h * w / (50 * 50)))
EstimatedCountRange(shape) ==
    <<(shape[1] * shape[2]) \div (200 * 200), (shape[1] * shape[2]) \div (50 * 50)>>

\* `if cond: warnings.append(w)`
WarnIf(cond, w) == IF cond THEN <<w>> ELSE <<>>

GenerateVerificationWarningsNoReturn(count, range, radius_mean, radius_std, minr, maxr, coverage) ==
    WarnIf(count = 0, "no_circles")
    \o WarnIf(2 * count < range[1], "few_circles")
    \o WarnIf(355000 * coverage[1] < 113 * coverage[2] /\ count > 0, "low_coverage")

\* generate_verification_warnings; the comparisons are those of the code
\* with both sides multiplied out to integers (0.5 = 1/2, 0.15 = 3/20,
\* 0.4 = 2/5, 0.1 / (100 * pi) taken with pi = 355/113)
GenerateVerificationWarnings(count, range, radius_mean, radius_std, minr, maxr, coverage) ==
    LET black_circle_count == count
        coverage_percent == coverage
    IN
    IF black_circle_count = 0 THEN <<"no_circles">>
    ELSE LET expected_min == range[1]
             sum == radius_mean[1]
             n == radius_mean[2]
             radius_range == maxr - minr
         IN WarnIf(2 * black_circle_count < expected_min, "few_circles")
            \o WarnIf(sum > 0 /\ 20 * sum < n * (20 * minr + 3 * radius_range), "near_min")
            \o WarnIf(sum > 0 /\ 20 * sum > n * (20 * maxr - 3 * radius_range), "near_max")
            \o WarnIf(sum > 0 /\ radius_std[1] > 0
                      /\ 25 * radius_std[1] * n * n > 4 * sum * sum * radius_std[2],
                      "high_variation")
            \o WarnIf(355000 * coverage_percent[1] < 113 * coverage_percent[2]
                      /\ black_circle_count > 0, "low_coverage")

PassedUnlessNoCircles(warnings) == ~(Len(warnings) > 0 /\ warnings[1] = "no_circles")

\* passed = len(warnings) == 0
Passed(warnings) == Len(warnings) = 0

VerificationResult(count, metrics, warnings, passed) ==
    [black_circles_detected |-> count,
     radius_mean |-> metrics.radius_mean, radius_std |-> metrics.radius_std,
     radius_min |-> metrics.radius_min, radius_max |-> metrics.radius_max,
     expected_density |-> ZeroFraction, actual_density |-> metrics.density,
     coverage_percent |-> metrics.coverage_percent,
     warnings |-> warnings, passed |-> passed]

VerifyShapes == {<<100, 100>>, <<400, 400>>}
VerifyRadiusWindows == {<<2, 6>>, <<2, 12>>}
VerifyExpectedRanges == {<<>>, <<0, 4>>, <<4, 10>>}

InitV ==
    /\ v_shape \in VerifyShapes
    /\ \E win \in VerifyRadiusWindows : v_min_radius = win[1] /\ v_max_radius = win[2]
    /\ expected_count_range \in VerifyExpectedRanges
    /\ radii \in SeqsUpTo({2, 4, 6}, MaxDetected)
    /\ vresult = NoResult
    /\ vpc = "start"

\* the verifier is not running
IdleV ==
    /\ v_shape = <<0, 0>>
    /\ v_min_radius = 0
    /\ v_max_radius = 0
    /\ expected_count_range = <<>>
    /\ radii = <<>>
    /\ vresult = NoResult
    /\ vpc = "idle"

\* verify_black_dot_detection from the detected circles to the return
VerifyBlackDotDetection ==
    /\ vpc = "start"
    /\ LET metrics == CalculateVerificationMetrics(Len(radii), v_shape, radii)
           range == IF Len(expected_count_range) = 0 THEN EstimatedCountRange(v_shape)
                                                     ELSE expected_count_range
           warnings == GenerateVerificationWarnings(Len(radii), range, metrics.radius_mean,
                                                    metrics.radius_std, v_min_radius,
                                                    v_max_radius, metrics.coverage_percent)
       IN vresult' = VerificationResult(Len(radii), metrics, warnings, Passed(warnings))
    /\ vpc' = "returned"
    /\ UNCHANGED <<v_shape, v_min_radius, v_max_radius, expected_count_range, radii>>
    /\ UNCHANGED notV

NextV == VerifyBlackDotDetection

(* The convex boundary filter of detect_circles_from_convex_edges for one  *)
(* blob whose contour has defects: convex_mask starts all True and every   *)
(* significant defect clears a slice of it.  The rows of convexityDefects  *)
(* are an input: consecutive hull edges, in contour order, each with its   *)
(* farthest point strictly between start and end.                          *)
MaxContour == 6
MaxMargin == 2
MaxDefects == 2

\* defect_depth_threshold (default argument)
DefectDepthThreshold == 5

\* the fixed-point depths just at and just above the threshold
DefectDepths == {256 * DefectDepthThreshold, 256 * DefectDepthThreshold + 1}

DefectRows(n) ==
    {<<s, e, (s + e) \div 2, d>> : s \in 0..(n - 1), e \in 0..(n - 1), d \in DefectDepths}

InContourOrder(ds) ==
    /\ \A k \in 1..Len(ds) : ds[k][1] + 2 <= ds[k][2]
    /\ \A k \in 1..(Len(ds) - 1) : ds[k][2] <= ds[k + 1][1]

\* depth = d / 256.0; depth > defect_depth_threshold
Significant(row) == row[4] > 256 * DefectDepthThreshold

\* convex_mask[start:end] = False
ClearSlice(mask, start, end) ==
    [p \in DOMAIN mask |-> IF start <= p /\ p < end THEN FALSE ELSE mask[p]]

InitF ==
    /\ contour_len \in 5..MaxContour
    /\ defects \in SeqsUpTo(DefectRows(contour_len), MaxDefects)
    /\ InContourOrder(defects)
    /\ non_convex_margin \in 0..MaxMargin
    /\ convex_mask = <<>>
    /\ defect_i = 0
    /\ fpc = "start"

\* the filter is not running
IdleF ==
    /\ contour_len = 0
    /\ defects = <<>>
    /\ non_convex_margin = 0
    /\ convex_mask = <<>>
    /\ defect_i = 0
    /\ fpc = "idle"

\* convex_mask = np.ones(len(contour), dtype=bool)
FilterStart ==
    /\ fpc = "start"
    /\ convex_mask' = [p \in 0..(contour_len - 1) |-> TRUE]
    /\ defect_i' = 0
    /\ fpc' = "defects"
    /\ UNCHANGED <<contour_len, defects, non_convex_margin>>
    /\ UNCHANGED notF

\* one iteration of the loop over the defects
FilterDefect ==
    /\ fpc = "defects"
    /\ defect_i < Len(defects)
    /\ LET row == defects[defect_i + 1]
           start == Max2(0, row[1] - non_convex_margin)
           end == Min2(contour_len, row[2] + non_convex_margin)
       IN convex_mask' = IF Significant(row) THEN ClearSlice(convex_mask, start, end)
                                             ELSE convex_mask
    /\ defect_i' = defect_i + 1
    /\ UNCHANGED <<contour_len, defects, non_convex_margin, fpc>>
    /\ UNCHANGED notF

\* the loop is exhausted: convex_points = contour[convex_mask]
FilterDone ==
    /\ fpc = "defects"
    /\ defect_i = Len(defects)
    /\ fpc' = "filtered"
    /\ UNCHANGED <<contour_len, defects, non_convex_margin, convex_mask, defect_i>>
    /\ UNCHANGED notF

NextF == FilterStart \/ FilterDefect \/ FilterDone

(* The best-circle selection of detect_circles_from_convex_edges: for each  *)
(* blob the candidates of cv2.HoughCircles are scored against the blob's   *)
(* convex points and the best one is appended to candidate_circles.        *)
(* Candidate coordinates are floats, kept here in half pixels; the convex  *)
(* points are integer pixels.                                              *)
MaxCandidates == 3
MaxBlobs == 2

\* `dist_to_circle < 10`
EdgeTolerance == 10

\* convex point sets of a blob
ConvexPointSets ==
    { << <<180, 100>>, <<100, 180>>, <<280, 100>>, <<200, 180>> >>,
      << <<180, 100>>, <<100, 180>>, <<20, 100>> >>,
      << <<100, 5>> >> }

\* circles the voting primitive can return: (100.5, 100.5, 80), (200.5, 100.5, 80),
\* (100.5, 100.5, 100), (150.5, 100.5, 80.5)
HoughCandidates == { <<201, 201, 160>>, <<401, 201, 160>>, <<201, 201, 200>>, <<301, 201, 161>> }

\* abs(np.sqrt((px - cx)**2 + (py - cy)**2) - r) < 10, squared, in half pixels
OnCircle(pt, circle) ==
    LET dx == 2 * pt[1] - circle[1]
        dy == 2 * pt[2] - circle[2]
        d2 == dx * dx + dy * dy
        r == circle[3]
        tol == 2 * EdgeTolerance
    IN /\ d2 < (r + tol) * (r + tol)
       /\ (r - tol < 0 \/ d2 > (r - tol) * (r - tol))

\* score: the number of convex points within the tolerance of the circle
Score(pts, circle) == Cardinality({k \in 1..Len(pts) : OnCircle(pts[k], circle)})

\* expected_points = 2 * np.pi * r * 0.3, times 500 (pi as 3.14, r in half pixels)
ExpectedPoints500(circle) == 471 * circle[3]

\* normalized_score = score / max(expected_points, 1), as a fraction
NormalizedScore(pts, circle) == <<500 * Score(pts, circle), Max2(ExpectedPoints500(circle), 500)>>

ScoreGreaterOrEqual(a, b) == a[1] * b[2] >= b[1] * a[2]

\* normalized_score > best_score
ScoreGreater(a, b) == a[1] * b[2] > b[1] * a[2]

\* (int(cx), int(cy), int(r))
IntCircle(circle) == <<circle[1] \div 2, circle[2] \div 2, circle[3] \div 2>>

InitS ==
    /\ convex_points = <<>>
    /\ hough_circles = <<>>
    /\ circle_i = 0
    /\ best_circle = <<>>
    /\ best_score = <<-1, 1>>
    /\ candidate_circles = <<>>
    /\ blobs_done = 0
    /\ spc = "blob"

\* the selection is not running
IdleS ==
    /\ convex_points = <<>>
    /\ hough_circles = <<>>
    /\ circle_i = 0
    /\ best_circle = <<>>
    /\ best_score = <<-1, 1>>
    /\ candidate_circles = <<>>
    /\ blobs_done = 0
    /\ spc = "idle"

\* the next blob: its convex points and what cv2.HoughCircles returns for them;
\* `if circles is None: continue`, else best_circle = None, best_score = -1
BlobStart ==
    /\ spc = "blob"
    /\ blobs_done < MaxBlobs
    /\ \E pts \in ConvexPointSets, cs \in SeqsUpTo(HoughCandidates, MaxCandidates) :
          /\ convex_points' = pts
          /\ hough_circles' = cs
          /\ circle_i' = 0
          /\ best_circle' = <<>>
          /\ best_score' = <<-1, 1>>
          /\ IF cs = <<>>
             THEN blobs_done' = blobs_done + 1 /\ spc' = "blob"
             ELSE blobs_done' = blobs_done /\ spc' = "select"
    /\ UNCHANGED candidate_circles
    /\ UNCHANGED notS

\* one iteration of `for circle in circles[0]`
SelectCircle ==
    /\ spc = "select"
    /\ circle_i < Len(hough_circles)
    /\ LET circle == hough_circles[circle_i + 1]
           normalized_score == NormalizedScore(convex_points, circle)
       IN IF ScoreGreater(normalized_score, best_score)
          THEN best_score' = normalized_score /\ best_circle' = IntCircle(circle)
          ELSE UNCHANGED <<best_score, best_circle>>
    /\ circle_i' = circle_i + 1
    /\ UNCHANGED <<convex_points, hough_circles, candidate_circles, blobs_done, spc>>
    /\ UNCHANGED notS

\* the loop is exhausted: `if best_circle is not None: candidate_circles.append(best_circle)`
BlobDone ==
    /\ spc = "select"
    /\ circle_i = Len(hough_circles)
    /\ candidate_circles' = IF best_circle # <<>> THEN Append(candidate_circles, best_circle)
                                                  ELSE candidate_circles
    /\ blobs_done' = blobs_done + 1
    /\ spc' = "blob"
    /\ UNCHANGED <<convex_points, hough_circles, circle_i, best_circle, best_score>>
    /\ UNCHANGED notS

NextS == BlobStart \/ SelectCircle \/ BlobDone

InitSpecTiles == InitTiles /\ IdleD /\ IdleC /\ IdleG /\ IdleV /\ IdleF /\ IdleS

InitSpecChunked == InitChunked /\ IdleD /\ IdleC /\ IdleG /\ IdleV /\ IdleF /\ IdleS

InitSpecDedup == InitD /\ IdleC /\ IdleT /\ IdleG /\ IdleV /\ IdleF /\ IdleS

InitSpecCalib == InitC /\ IdleD /\ IdleT /\ IdleG /\ IdleV /\ IdleF /\ IdleS

InitSpecGen == InitG /\ IdleD /\ IdleC /\ IdleT /\ IdleV /\ IdleF /\ IdleS

InitSpecVerify == InitV /\ IdleD /\ IdleC /\ IdleT /\ IdleG /\ IdleF /\ IdleS

InitSpecFilter == InitF /\ IdleD /\ IdleC /\ IdleT /\ IdleG /\ IdleV /\ IdleS

InitSpecSelect == InitS /\ IdleD /\ IdleC /\ IdleT /\ IdleG /\ IdleV /\ IdleF

SpecTiles == InitSpecTiles /\ [][NextTiles]_vars

SpecChunked == InitSpecChunked /\ [][NextChunked]_vars

SpecDedup == InitSpecDedup /\ [][NextD]_vars

SpecCalib == InitSpecCalib /\ [][NextC]_vars

\* calibrate_radius runs to its return once called
SpecCalibFair == InitSpecCalib /\ [][NextC]_vars /\ WF_vars(NextC)

SpecVerify == InitSpecVerify /\ [][NextV]_vars

SpecFilter == InitSpecFilter /\ [][NextF]_vars

SpecSelect == InitSpecSelect /\ [][NextS]_vars

\* the for loops of generate_tiles run to completion once entered
SpecGen == InitSpecGen /\ [][NextG]_vars /\ WF_vars(NextG)

(***************************************************************************)
(* Properties of the spatial deduplicator.                                 *)
(***************************************************************************)

\* C1: no two distinct circles of a deduplicated result have centers closer
\* than dedup_distance (Euclidean distance).
C1_NoCloseCenters ==
    \A a \in 1..Len(final_circles) : \A b \in 1..Len(final_circles) :
        a # b =>
            DistSq(final_circles[a].x, final_circles[a].y,
                   final_circles[b].x, final_circles[b].y)
                >= dedup_distance * dedup_distance

C1_Witness ==
    /\ dpc = "returned"
    /\ pass = 1
    /\ dedup_distance > 0
    /\ Len(final_circles) >= 2
    /\ Len(final_circles) < Len(circles)

\* C2: deduplication is idempotent: the run on the (x, y, radius) triples of
\* the first run's output returns the same circles in the same order.
C2_Idempotent ==
    (dpc = "returned" /\ pass = 2) => final_circles = first_result

C2_Witness ==
    /\ dpc = "returned"
    /\ pass = 2
    /\ dedup_distance > 0
    /\ Len(final_circles) >= 2
    /\ Len(first_result) < Len(xs)

\* candidate i (0-based) is emitted by a greedy first-wins filter iff no
\* earlier emitted candidate has its center within d of candidate i's center
RECURSIVE GreedyKeep(_, _, _)
GreedyKeep(cs, d, i) ==
    \A j \in 0..(i - 1) :
        GreedyKeep(cs, d, j) =>
            DistSq(cs[j + 1][1], cs[j + 1][2], cs[i + 1][1], cs[i + 1][2]) > d * d

GreedyIndices(cs, d) ==
    SelectSeq([k \in 1..Len(cs) |-> k - 1], LAMBDA i : GreedyKeep(cs, d, i))

\* C3: the result is the order-preserving subsequence of the input holding
\* exactly the greedily kept candidates, each with x, y and radius unchanged;
\* the first candidate of a non-empty input is always emitted.
C3_GreedyFirstWins ==
    dpc = "returned" =>
        LET kept == GreedyIndices(circles, dedup_distance) IN
        /\ final_circles =
             [k \in 1..Len(kept) |->
                DetectedCircle(circles[kept[k] + 1][1], circles[kept[k] + 1][2],
                               circles[kept[k] + 1][3], color)]
        /\ Len(circles) > 0 =>
             /\ Len(final_circles) > 0
             /\ <<final_circles[1].x, final_circles[1].y, final_circles[1].radius>> = circles[1]

C3_Witness ==
    /\ dpc = "returned"
    /\ pass = 1
    /\ Len(circles) = 3
    /\ Len(final_circles) = 2
    /\ 1 \in used
    /\ final_circles[2].x = circles[3][1]
    /\ final_circles[2].y = circles[3][2]
    /\ final_circles[2].radius = circles[3][3]
    /\ DistSq(circles[2][1], circles[2][2], circles[3][1], circles[3][2])
         <= dedup_distance * dedup_distance

(***************************************************************************)
(* Properties of the radius calibrator.                                    *)
(***************************************************************************)

\* C6: every returned CalibrationResult, on every return path, satisfies
\* converged == (final_error == 0).
C6_ConvergedIffZeroError ==
    cpc = "done" => (result.converged <=> (result.final_error = 0))

\* C7: whenever calibrate_radius returns with target_count > 0, the returned
\* bounds satisfy optimal_max_radius > optimal_min_radius strictly.
C7_StrictBounds ==
    (cpc = "done" /\ result.target_count > 0) =>
        result.optimal_max_radius > result.optimal_min_radius

\* the range of the min search and its predicate "count >= target_count"
MinRange == initial_min..verification.radius_min

MinPred(m) == vAtMax[m] >= target_count

MinPredMonotone ==
    \A m1 \in MinRange : \A m2 \in MinRange : (m1 < m2 /\ MinPred(m2)) => MinPred(m1)

\* C8: when the predicate "count at (m, initial_max) >= target_count" is
\* monotone in m, the min search returns the largest m of
\* [initial_min, detected_radius_min] for which it holds, and that value
\* becomes optimal_min_radius.
C8_MinSearchLargest ==
    (cpc \in {"max_search", "done"} /\ target_count > 0 /\ MinPredMonotone) =>
        /\ optimal_min \in MinRange
        /\ MinPred(optimal_min)
        /\ \A m \in MinRange : MinPred(m) => m <= optimal_min
        /\ cpc = "done" => result.optimal_min_radius = optimal_min

C8_Witness ==
    /\ cpc = "done"
    /\ MinPredMonotone
    /\ initial_min < optimal_min
    /\ optimal_min < verification.radius_min
    /\ ~MinPred(optimal_min + 1)
    /\ min_iters >= 2

\* the range of the max search and its predicate, min_radius fixed at optimal_min
MaxRange == verification.radius_max..initial_max

MaxPred(M) == vAtMin[M] >= target_count

MaxPredMonotone ==
    \A M1 \in MaxRange : \A M2 \in MaxRange : (M1 < M2 /\ MaxPred(M1)) => MaxPred(M2)

\* C9: when the predicate "count at (optimal_min, M) >= target_count" is
\* monotone in M, the max search returns the smallest M of
\* [detected_radius_max, initial_max] for which it holds; every probe of the
\* max search is made with min_radius fixed at the result of the min search.
C9_MaxSearchSmallest ==
    (cpc = "done" /\ result.target_count > 0) =>
        /\ \A k \in 1..Len(result.history) :
              result.history[k].parameter = "max_radius" =>
                  result.history[k].min_radius = result.optimal_min_radius
        /\ (MaxPredMonotone /\ \E M \in MaxRange : MaxPred(M)) =>
              /\ result.optimal_max_radius \in MaxRange
              /\ MaxPred(result.optimal_max_radius)
              /\ \A M \in MaxRange : MaxPred(M) => result.optimal_max_radius <= M

C9_Witness ==
    /\ cpc = "done"
    /\ result.target_count > 0
    /\ MaxPredMonotone
    /\ verification.radius_max < result.optimal_max_radius
    /\ result.optimal_max_radius < initial_max
    /\ ~MaxPred(result.optimal_max_radius - 1)
    /\ initial_min < result.optimal_min_radius
    /\ result.iterations - 1 - min_iters >= 2

\* the verifier's count never increases when min_radius is raised or when
\* max_radius is lowered (on the rows the calibrator can probe)
VerifierMonotone ==
    /\ \A m1 \in DOMAIN vAtMax : \A m2 \in DOMAIN vAtMax :
          m1 < m2 => vAtMax[m2] <= vAtMax[m1]
    /\ \A M1 \in DOMAIN vAtMin : \A M2 \in DOMAIN vAtMin :
          M1 < M2 => vAtMin[M1] <= vAtMin[M2]

\* C10: with a deterministic verifier whose count is monotone in both bounds,
\* every run with target_count > 0 ends with final_count == target_count,
\* final_error == 0 and converged == True.
C10_MonotoneConverges ==
    (cpc = "done" /\ result.target_count > 0 /\ VerifierMonotone) =>
        /\ result.final_count = result.target_count
        /\ result.final_error = 0
        /\ result.converged = TRUE

C10_Witness ==
    /\ cpc = "done"
    /\ result.target_count > 0
    /\ VerifierMonotone
    /\ result.optimal_min_radius > initial_min
    /\ result.optimal_max_radius < initial_max
    /\ \E m \in DOMAIN vAtMax : vAtMax[m] < target_count
    /\ \E M \in DOMAIN vAtMin : vAtMin[M] < target_count
    /\ result.converged

(***************************************************************************)
(* Properties of the tile orchestrator.                                    *)
(***************************************************************************)

\* the multiset of the elements of a list
MultisetOf(q) ==
    [e \in {q[k] : k \in 1..Len(q)} |-> Cardinality({k \in 1..Len(q) : q[k] = e})]

\* every dot lies fully inside at least one tile and straddles no tile: a
\* tile that holds a pixel of the dot holds the whole dot
NoDotStraddles ==
    \A k \in 1..Len(scene) :
        /\ \E t \in 1..Len(tiles) : FullyInside(scene[k], tiles[t])
        /\ \A t \in 1..Len(tiles) :
              Touches(scene[k], tiles[t]) => FullyInside(scene[k], tiles[t])

\* C4: tiling equivalence: when no dot straddles a tile seam, the multi-tile
\* path of process_chunked returns the same multiset of circles as
\* detect_all_circles on the whole image with the same palette and radii.
C4_TilingEquivalence ==
    (tpc = "done" /\ path = "multi" /\ NoDotStraddles) =>
        MultisetOf(chunk_result)
            = MultisetOf(DetectAllCircles(scene, WholeImage, min_radius, max_radius))

\* all circles of radius r <= max_radius whose pixels lie inside the image
CirclesInImage ==
    {c \in [x : 0..(img_w - 1), y : 0..(img_h - 1), radius : 0..max_radius] :
        FullyInside(c, WholeImage)}

\* C5: with overlap = 2 * max_radius and the effective chunk_size, every
\* circle of radius <= max_radius that lies entirely inside the image is
\* entirely contained in at least one tile of generate_tiles.
C5_CircleInSomeTile ==
    tpc = "tiled" =>
        \A c \in CirclesInImage : \E t \in 1..Len(tiles) : FullyInside(c, tiles[t])

C5_Witness ==
    /\ tpc = "tiled"
    /\ max_radius = 2
    /\ Len(tiles) >= 4
    /\ \E c \in CirclesInImage :
          /\ c.radius = max_radius
          /\ ~FullyInside(c, tiles[1])
          /\ Touches(c, tiles[1])
          /\ \E t \in 2..Len(tiles) : FullyInside(c, tiles[t])

\* C11: when the baseline radii lie inside the initial window, the returned
\* bounds bracket them and stay inside the window: initial_min <=
\* optimal_min_radius <= detected_radius_min and detected_radius_max <=
\* optimal_max_radius <= initial_max.
C11_BoundsBracket ==
    (/\ cpc = "done"
     /\ result.target_count > 0
     /\ initial_min <= verification.radius_min
     /\ verification.radius_min <= verification.radius_max
     /\ verification.radius_max <= initial_max) =>
        /\ initial_min <= result.optimal_min_radius
        /\ result.optimal_min_radius <= verification.radius_min
        /\ verification.radius_max <= result.optimal_max_radius
        /\ result.optimal_max_radius <= initial_max

C11_Witness ==
    /\ cpc = "done"
    /\ result.target_count > 0
    /\ initial_min < result.optimal_min_radius
    /\ result.optimal_min_radius < verification.radius_min
    /\ verification.radius_min <= verification.radius_max
    /\ verification.radius_max < result.optimal_max_radius
    /\ result.optimal_max_radius < initial_max

\* the smallest k with 2^k >= n, i.e. ceil(log2(n)) for n >= 1
CeilLog2(n) == CHOOSE k \in 0..n : 2^k >= n /\ \A j \in 0..(k - 1) : 2^j < n

range_min == verification.radius_min - initial_min
range_max == initial_max - verification.radius_max

\* C12 as stated: wherever both logarithms are defined (range_min >= 1 and
\* range_max >= 1) the returned iterations value is at most
\* 1 + ceil(log2(range_min)) + ceil(log2(range_max)).
C12_LogBound ==
    (cpc = "done" /\ result.target_count > 0 /\ range_min >= 1 /\ range_max >= 1) =>
        result.iterations <= 1 + CeilLog2(range_min) + CeilLog2(range_max)

\* C12 amended: a search over the range_min + 1 (range_max + 1) integers of
\* its closed interval probes at most ceil(log2(range_min + 2))
\* (ceil(log2(range_max + 2))) of them, so the returned iterations value is
\* at most 1 + ceil(log2(range_min + 2)) + ceil(log2(range_max + 2)).
C12_IterationBound ==
    (cpc = "done" /\ result.target_count > 0) =>
        result.iterations <= 1 + CeilLog2(range_min + 2) + CeilLog2(range_max + 2)

C12_Witness ==
    /\ cpc = "done"
    /\ result.target_count > 0
    /\ range_min >= 2
    /\ range_max >= 2
    /\ result.iterations = 1 + CeilLog2(range_min + 2) + CeilLog2(range_max + 2)
    /\ result.iterations > 1 + CeilLog2(range_min) + CeilLog2(range_max)

\* C13: when the baseline probe reports zero circles, calibrate_radius has
\* called the verifier exactly once, has invoked no on_iteration callback,
\* and returns converged = FALSE, iterations = 0, an empty history,
\* target_count = 0 and the initial bounds as the optimal bounds.
C13_NoCirclesStops ==
    (cpc = "done" /\ verification.black_circles_detected = 0) =>
        /\ verify_calls = 1
        /\ callbacks = <<>>
        /\ result.converged = FALSE
        /\ result.iterations = 0
        /\ result.history = <<>>
        /\ result.target_count = 0
        /\ result.optimal_min_radius = initial_min
        /\ result.optimal_max_radius = initial_max

C13_Witness ==
    /\ cpc = "done"
    /\ verification.black_circles_detected = 0
    /\ on_iteration
    /\ result.converged = FALSE
    /\ verify_calls = 1

PixelInTile(px, py, t) == t[1] <= px /\ px < t[3] /\ t[2] <= py /\ py < t[4]

EveryPixelCovered ==
    \A px \in 0..(image_shape[2] - 1), py \in 0..(image_shape[1] - 1) :
        \E k \in 1..Len(gen_tiles) : PixelInTile(px, py, gen_tiles[k])

\* C17: for every h, w >= 1, chunk_size >= 1 and overlap >= 0 (overlap >=
\* chunk_size included) generate_tiles eventually returns, and every pixel
\* of the image lies in at least one returned tile.
C17_TerminatesAndCovers == <>(gpc = "returned" /\ EveryPixelCovered)

C17_Witness ==
    /\ gpc = "returned"
    /\ gen_overlap >= gen_chunk_size
    /\ image_shape[1] > gen_chunk_size
    /\ image_shape[2] > gen_chunk_size
    /\ Len(gen_tiles) = image_shape[1] * image_shape[2]
    /\ EveryPixelCovered

\* C18: every generated tile (x1, y1, x2, y2) is non-empty and inside the
\* image: 0 <= x1 < x2 <= w and 0 <= y1 < y2 <= h.
C18_TilesInBounds ==
    \A k \in 1..Len(gen_tiles) :
        LET t == gen_tiles[k] IN
        /\ 0 <= t[1] /\ t[1] < t[3] /\ t[3] <= image_shape[2]
        /\ 0 <= t[2] /\ t[2] < t[4] /\ t[4] <= image_shape[1]

C18_Witness ==
    /\ gpc = "returned"
    /\ \E k \in 1..Len(gen_tiles) :
          LET t == gen_tiles[k] IN
          /\ t[1] > 0
          /\ t[2] > 0
          /\ t[3] = image_shape[2]
          /\ t[3] < t[1] + gen_chunk_size
          /\ t[4] = image_shape[1]
          /\ t[4] < t[2] + gen_chunk_size

\* C19: for an image with h <= chunk_size and w <= chunk_size generate_tiles
\* returns exactly the one tile (0, 0, w, h).
C19_SingleTileWhenFits ==
    (/\ gpc = "returned"
     /\ image_shape[1] <= gen_chunk_size
     /\ image_shape[2] <= gen_chunk_size) =>
        gen_tiles = << <<0, 0, image_shape[2], image_shape[1]>> >>

\* the tiles in which dot c is detected
TilesDetecting(c) ==
    {t \in 1..Len(tiles) :
        FullyInside(c, tiles[t]) /\ min_radius <= c.radius /\ c.radius <= max_radius}

\* C14: on the multi-tile path no two returned circles of one color have
\* centers within max_radius // 2 of each other, and a dot detected in
\* several overlapping tiles is reported exactly once.
C14_DuplicatesCollapse ==
    (tpc = "done" /\ path = "multi") =>
        /\ \A a \in 1..Len(chunk_result) : \A b \in 1..Len(chunk_result) :
              (a # b /\ chunk_result[a].color = chunk_result[b].color) =>
                  DistSq(chunk_result[a].x, chunk_result[a].y,
                         chunk_result[b].x, chunk_result[b].y)
                      > (max_radius \div 2) * (max_radius \div 2)
        /\ \A k \in 1..Len(scene) :
              Cardinality(TilesDetecting(scene[k])) >= 2 =>
                  Cardinality({m \in 1..Len(chunk_result) : chunk_result[m] = scene[k]}) = 1

\* the tile loop run over the tiles in the order given, then the merge
RECURSIVE AllCirclesInOrder(_, _)
AllCirclesInOrder(order, k) ==
    IF k > Len(order) THEN <<>>
    ELSE GlobalCircles(DetectAllCircles(scene, tiles[order[k]], min_radius, max_radius),
                       tiles[order[k]])
         \o AllCirclesInOrder(order, k + 1)

ProcessChunkedInOrder(order) ==
    LET cs == AllCirclesInOrder(order, 1)
    IN MergeFrom(cs, ColorsInOrder(cs), BoundaryDedupDistance(max_radius), 1)

\* every order of the tile indices 1..n
TileOrders(n) ==
    {f \in [1..n -> 1..n] : \A a \in 1..n : \A b \in 1..n : f[a] = f[b] => a = b}

SetOf(q) == {q[k] : k \in 1..Len(q)}

\* C15: on the multi-tile path the set of returned circles is the same for
\* every order in which the tiles are processed and merged.
C15_TileOrderIndependent ==
    (tpc = "done" /\ path = "multi") =>
        \A order \in TileOrders(Len(tiles)) :
            SetOf(ProcessChunkedInOrder(order)) = SetOf(chunk_result)

\* C20: every VerificationResult returned by verify_black_dot_detection has
\* passed = TRUE exactly when its warnings list is empty.
C20_PassedIffNoWarnings ==
    vpc = "returned" => (vresult.passed <=> vresult.warnings = <<>>)

C20_Witness ==
    /\ vpc = "returned"
    /\ vresult.black_circles_detected > 0
    /\ Len(vresult.warnings) >= 2
    /\ ~vresult.passed

\* C21: when the detector finds no circle the verifier returns count 0, the
\* radius mean, std, min and max, the coverage and the density all 0, the
\* single warning "no circles detected" and passed = FALSE.
C21_ZeroCircles ==
    (vpc = "returned" /\ Len(radii) = 0) =>
        /\ vresult.black_circles_detected = 0
        /\ vresult.radius_mean[1] = 0
        /\ vresult.radius_std[1] = 0
        /\ vresult.radius_min = 0
        /\ vresult.radius_max = 0
        /\ vresult.coverage_percent[1] = 0
        /\ vresult.actual_density[1] = 0
        /\ vresult.warnings = <<"no_circles">>
        /\ vresult.passed = FALSE

C21_Witness ==
    /\ vpc = "returned"
    /\ Len(radii) = 0
    /\ expected_count_range = <<>>
    /\ EstimatedCountRange(v_shape)[1] > 0
    /\ vresult.warnings = <<"no_circles">>

\* the search probes logged in a history (every step but the baseline)
SearchProbes(hist) == SelectSeq(hist, LAMBDA st : st.parameter # "baseline")

\* C24: the returned iterations value and the number of search probes never
\* exceed the max_iterations argument.
C24_WithinMaxIterations ==
    cpc = "done" =>
        /\ result.iterations <= max_iterations
        /\ Len(SearchProbes(result.history)) <= max_iterations

\* C25: every CalibrationStep of the returned history has min_radius >= 0,
\* error >= 0 and max_radius > min_radius.
C25_StepFieldsValid ==
    cpc = "done" =>
        \A k \in 1..Len(result.history) :
            /\ result.history[k].min_radius >= 0
            /\ result.history[k].error >= 0
            /\ result.history[k].max_radius > result.history[k].min_radius

\* the history starts with one baseline step at the initial bounds with
\* error 0, followed by min_radius steps probed at max_radius = initial_max,
\* followed by max_radius steps probed at min_radius = optimal_min
PhasesInOrder(hist) ==
    /\ Len(hist) >= 1
    /\ hist[1].parameter = "baseline"
    /\ hist[1].min_radius = initial_min
    /\ hist[1].max_radius = initial_max
    /\ hist[1].error = 0
    /\ \A k \in 2..Len(hist) :
          \/ /\ hist[k].parameter = "min_radius"
             /\ hist[k].max_radius = initial_max
             /\ \A j \in 2..k : hist[j].parameter = "min_radius"
          \/ /\ hist[k].parameter = "max_radius"
             /\ hist[k].min_radius = optimal_min
             /\ \A j \in k..Len(hist) : hist[j].parameter = "max_radius"

HistoryPhases ==
    /\ (cpc \in {"min_search", "max_search"}) => PhasesInOrder(history)
    /\ (cpc = "done" /\ result.target_count > 0) =>
          /\ PhasesInOrder(result.history)
          /\ result.optimal_min_radius = optimal_min

HistoryAppendOnly ==
    /\ Len(history') >= Len(history)
    /\ SubSeq(history', 1, Len(history)) = history

\* C26: when target_count > 0 the history is one baseline step, then the
\* min_radius steps (each at max_radius = initial_max), then the max_radius
\* steps (each at min_radius = optimal_min_radius), never interleaved; the
\* history only grows by appending and an appended step never changes.
C26_HistoryPhases == [](HistoryPhases) /\ [][HistoryAppendOnly]_vars

C26_Witness ==
    /\ cpc = "done"
    /\ result.target_count > 0
    /\ Len(SelectSeq(result.history, LAMBDA st : st.parameter = "min_radius")) >= 2
    /\ Len(SelectSeq(result.history, LAMBDA st : st.parameter = "max_radius")) >= 2
    /\ result.optimal_min_radius > initial_min

\* a probe of either binary search leaves a strictly smaller interval
ProbeShrinks ==
    (cpc \in {"min_search", "max_search"} /\ cpc' = cpc /\ iterations' = iterations + 1) =>
        high' - low' < high - low

\* C27: for every verifier behaviour, monotone or not, calibrate_radius
\* eventually returns a CalibrationResult, and every probe of a binary
\* search strictly shrinks the interval [low, high].
C27_Terminates == <>(cpc = "done" /\ result # NoResult) /\ [][ProbeShrinks]_vars

C27_Witness ==
    /\ cpc = "done"
    /\ result.target_count > 0
    /\ ~VerifierMonotone
    /\ ~result.converged
    /\ result.iterations >= 5

\* the steps the callback was invoked with, in order
CallbackSteps == [k \in 1..Len(callbacks) |-> callbacks[k].step]

\* C28: when on_iteration is supplied it is invoked once per step appended
\* to the history, in append order and after the append, so the callback
\* arguments equal result.history; the final verification invokes none.
C28_CallbackPerStep ==
    on_iteration =>
        /\ CallbackSteps = history
        /\ \A k \in 1..Len(callbacks) : callbacks[k].history_len = k
        /\ (cpc = "done" /\ result.target_count > 0) =>
              /\ CallbackSteps = result.history
              /\ verify_calls = Len(callbacks) + 1

C28_Witness ==
    /\ on_iteration
    /\ cpc = "done"
    /\ Len(callbacks) >= 4
    /\ CallbackSteps = result.history
    /\ callbacks[Len(callbacks)].step.parameter = "max_radius"

\* C29: in every returned CalibrationResult iterations equals the number of
\* steps of history: 0 with an empty history when no reference circle is
\* found, otherwise the baseline step plus one step per search probe.
C29_IterationsIsHistoryLength ==
    cpc = "done" =>
        /\ result.iterations = Len(result.history)
        /\ result.target_count = 0 => result.history = <<>>
        /\ result.target_count > 0 =>
              Len(result.history) = 1 + Len(SearchProbes(result.history))

C29_Witness ==
    /\ cpc = "done"
    /\ result.target_count > 0
    /\ result.iterations = Len(result.history)
    /\ Len(SearchProbes(result.history)) >= 4

\* C30: the k-th step of a history (k counted from 0) carries iteration
\* number k.
C30_ConsecutiveNumbers ==
    \A k \in 1..Len(history) : history[k].iteration = k - 1

\* boundary index p lies within margin positions of the defect (s .. e):
\* it is one of the indices s - margin .. e + margin - 1 (the slice the
\* filter clears), taken cyclically on the closed contour of n points
NearDefect(p, row, margin, n) ==
    \E q \in (row[1] - margin)..(row[2] + margin - 1) : q % n = p

\* C22: for every defect deeper than the threshold, every contour point
\* within margin positions of the defect, indices taken cyclically, is
\* excluded from the convex point set.
C22_DefectNeighbourhoodExcluded ==
    fpc = "filtered" =>
        \A k \in 1..Len(defects) :
            Significant(defects[k]) =>
                \A p \in 0..(contour_len - 1) :
                    NearDefect(p, defects[k], non_convex_margin, contour_len)
                        => ~convex_mask[p]

\* fraction a is the higher normalized score
HigherScore(a, b) == a[1] * b[2] > b[1] * a[2]

\* the index of the candidate the selection must keep: no candidate scores higher,
\* and every earlier candidate scores strictly lower
KeptIndex(pts, cs) ==
    CHOOSE k \in 1..Len(cs) :
        /\ \A j \in 1..Len(cs) : ~HigherScore(NormalizedScore(pts, cs[j]), NormalizedScore(pts, cs[k]))
        /\ \A j \in 1..(k - 1) : HigherScore(NormalizedScore(pts, cs[k]), NormalizedScore(pts, cs[j]))

BestPerBlob ==
    IF spc = "select" /\ spc' = "blob"
    THEN candidate_circles' =
             Append(candidate_circles, IntCircle(hough_circles[KeptIndex(convex_points, hough_circles)]))
    ELSE candidate_circles' = candidate_circles

\* C23: each blob contributes at most one candidate circle: finishing a blob that has
\* candidates appends exactly the candidate with the highest normalized score, the
\* earliest one on equal scores, and no other step (a blob without candidates
\* included) changes candidate_circles.
C23_BestCirclePerBlob == [][BestPerBlob]_vars

\* the first blob had no candidate and contributed none; the second blob's first two
\* candidates differ, tie on the highest score, and the first one was kept
C23_Witness ==
    /\ spc = "blob"
    /\ blobs_done = 2
    /\ Len(hough_circles) >= 2
    /\ IntCircle(hough_circles[1]) # IntCircle(hough_circles[2])
    /\ Score(convex_points, hough_circles[1]) > 0
    /\ NormalizedScore(convex_points, hough_circles[1]) = NormalizedScore(convex_points, hough_circles[2])
    /\ KeptIndex(convex_points, hough_circles) = 1
    /\ candidate_circles = <<IntCircle(hough_circles[1])>>

====
